---- MODULE Spec2Model ----
(***************************************************************************)
(* Model of sway-lsp/src/event_loop/dispatch.rs: the RequestDispatcher and *)
(* NotificationDispatcher, the closures they submit to the task pool, and  *)
(* the mapping of handler results to lsp_server responses.                 *)
(*                                                                         *)
(* Option<T> values are sequences of length 0 (None) or 1 (Some).          *)
(* Fields named by, outcome, rid, at, seen, now and sess, and the variables *)
(* fate, spawned, tried, orig, dcruns and ncalls are history (ghost)       *)
(* state: they record which strategy and which handler result produced an  *)
(* effect and never influence what the dispatchers do.                     *)
(***************************************************************************)
EXTENDS Integers, Sequences, FiniteSets, TLC

VARIABLES
    pc,        \* main thread: "idle", "req" (RequestDispatcher chain), "not", "panicked"
    req,       \* RequestDispatcher.req : Option<Request>
    not,       \* NotificationDispatcher.not : Option<Notification>
    steps,     \* strategy attempts made so far on the current dispatcher
    finished,  \* finish has been called on the current dispatcher
    state,     \* live ServerStateExt contents (a version number), owned by the main thread
    sent,      \* responses passed to ServerStateExt::respond, in order
    pool,      \* closures submitted to task_pool.handle and not yet run
    tasks,     \* Tasks the pool has produced, in order of production
    cursor,    \* how many of tasks the main loop has taken from its inbox
    nextId,    \* next fresh request identifier
    nots,      \* notifications received so far
    errlog,    \* tracing::error! entries written by the dispatchers
    loopErr,   \* failures returned to the caller of a notification chain
    fate,      \* ghost: per request id, what happened to its latest dispatch
    spawned,   \* ghost: per request id, closures submitted to the pool for it
    tried,     \* ghost: the methods attempted so far on the current RequestDispatcher
    orig,      \* ghost: per request id, the request as first received
    sessions,  \* session data (a version number), shared by the live state and every snapshot
    dcruns,    \* ghost: how each on_did_change closure that a pool thread ran ended
    ncalls     \* ghost: handlers called and closures submitted by the current NotificationDispatcher

vars == <<pc, req, not, steps, finished, state, sent, pool, tasks, cursor,
          nextId, nots, errlog, loopErr, fate, spawned, tried, orig, sessions, dcruns, ncalls>>

----------------------------------------------------------------------------
(* Bounds of the model *)

\* Messages (requests and notifications) the main loop receives; request
\* identifiers are 1..MaxMsgs.
MaxMsgs == 2
\* Strategy attempts chained on one dispatcher before finish.
MaxChain == 2
\* Retry tasks the pool produces (cancellations on a retry-eligible path).
MaxRetry == 1

----------------------------------------------------------------------------
(* Protocol values *)

\* lsp_server::ErrorCode
InvalidParams == -32602
MethodNotFound == -32601
InternalError == -32603
ContentModified == -32801

ReqIds == 1..MaxMsgs
ReqMethods == {"X", "Y"}
Payloads == {"pX", "pY"}

\* lsp_server::Request
Request(id, method, params) == [id |-> id, method |-> method, params |-> params]

\* lsp_server::Response::new_ok
new_ok(id, value) == [id |-> id, result |-> <<value>>, error |-> <<>>]

\* lsp_server::Response::new_err
new_err(id, code, message) ==
    [id |-> id, result |-> <<>>, error |-> <<[code |-> code, message |-> message]>>]

IsErr(resp) == resp.error # <<>>
IsErrCode(resp, code) == IsErr(resp) /\ resp.error[1].code = code

----------------------------------------------------------------------------
(* Handler results: anyhow::Result<R::Result>, or a panic *)

OkResult(v) == [kind |-> "Ok", value |-> v, code |-> 0, message |-> ""]
LspErrorResult(code, message) ==
    [kind |-> "LspError", value |-> 0, code |-> code, message |-> message]
CancelledResult == [kind |-> "Cancelled", value |-> 0, code |-> 0, message |-> ""]
OtherResult(message) == [kind |-> "Other", value |-> 0, code |-> 0, message |-> message]
Panic == [kind |-> "Panic", value |-> 0, code |-> 0, message |-> "handler bug"]

Results == {OkResult(42), LspErrorResult(-32001, "busy"), CancelledResult,
            OtherResult("boom")}
Behaviours == Results \cup {Panic}

----------------------------------------------------------------------------
(* Collaborators of the dispatchers *)

\* event_loop::from_json(R::METHOD, &req.params): the payload decodes into
\* R::Params only when it has the shape of that method's parameters.
Accepts(method) == IF method = "X" THEN {"pX"} ELSE {"pY"}
DecodeError(method, params) == "Failed to deserialize " \o method \o ": " \o params
from_json(method, params) ==
    IF params \in Accepts(method)
    THEN [ok |-> TRUE, value |-> [of |-> method, fields |-> params], error |-> ""]
    ELSE [ok |-> FALSE, value |-> [of |-> "", fields |-> ""],
          error |-> DecodeError(method, params)]

\* ServerStateExt::snapshot: a copy of the state as it is now.
snapshot == state

\* ServerStateExt::respond, with the ghost tags of the response.
respond(out, resp, by, outcome) ==
    Append(out, [resp |-> resp, by |-> by, outcome |-> outcome])

\* task_pool.handle.spawn(intent, closure)
spawn(p, closure) == Append(p, closure)

\* main_loop::Task
TaskResponse(resp) == [kind |-> "Response", resp |-> <<resp>>, req |-> <<>>]
TaskRetry(r) == [kind |-> "Retry", resp |-> <<>>, req |-> <<r>>]

----------------------------------------------------------------------------
(* dispatch.rs: pure functions *)

\* Mutant of result_to_response: a generic failure is handed back as if it
\* were a cancellation.
result_to_response_drop_other(id, result) ==
    CASE result.kind = "Ok" ->
            [ok |-> TRUE, resp |-> <<new_ok(id, result.value)>>]
      [] result.kind = "LspError" ->
            [ok |-> TRUE, resp |-> <<new_err(id, result.code, result.message)>>]
      [] OTHER ->
            [ok |-> FALSE, resp |-> <<>>]

\* Mutant of result_to_response: the downcast to Cancelled is missing, so a
\* cancellation becomes an internal error.
result_to_response_cancel_internal(id, result) ==
    CASE result.kind = "Ok" ->
            [ok |-> TRUE, resp |-> <<new_ok(id, result.value)>>]
      [] result.kind = "LspError" ->
            [ok |-> TRUE, resp |-> <<new_err(id, result.code, result.message)>>]
      [] OTHER ->
            [ok |-> TRUE, resp |-> <<new_err(id, InternalError, result.message)>>]

\* Mutant of result_to_response: the downcast to LspError is missing, so a
\* typed protocol error is reported as a generic failure.
result_to_response_typed_internal(id, result) ==
    CASE result.kind = "Ok" ->
            [ok |-> TRUE, resp |-> <<new_ok(id, result.value)>>]
      [] result.kind = "Cancelled" ->
            [ok |-> FALSE, resp |-> <<>>]
      [] OTHER ->
            [ok |-> TRUE, resp |-> <<new_err(id, InternalError, result.message)>>]

\* result_to_response::<R>(id, result) : Result<Response, Cancelled>
result_to_response(id, result) ==
    CASE result.kind = "Ok" ->
            [ok |-> TRUE, resp |-> <<new_ok(id, result.value)>>]
      [] result.kind = "LspError" ->
            [ok |-> TRUE, resp |-> <<new_err(id, result.code, result.message)>>]
      [] result.kind = "Cancelled" ->
            [ok |-> FALSE, resp |-> <<>>]
      [] OTHER ->
            [ok |-> TRUE, resp |-> <<new_err(id, InternalError, result.message)>>]

\* thread_result_to_response::<R>(id, result), where result is the
\* thread::Result of catch_unwind: a caught panic becomes an InternalError
\* response. No strategy calls it: every call is commented out (lines 83-90,
\* 128-138, 220-227).
thread_result_to_response(id, result) ==
    IF result.kind = "Panic"
    THEN [ok |-> TRUE,
          resp |-> <<new_err(id, InternalError,
                             IF result.message = "" THEN "request handler panicked"
                             ELSE "request handler panicked" \o ": " \o result.message)>>]
    ELSE result_to_response(id, result)

\* Mutant of parse: the matched request is cloned out of the slot, not taken.
parse_keep(R) ==
    IF req # <<>> /\ req[1].method = R
    THEN LET r == req[1]
             res == from_json(R, r.params)
         IN  IF res.ok
             THEN [slot |-> req, it |-> <<[req |-> r, params |-> res.value]>>,
                   respond |-> <<>>]
             ELSE [slot |-> req, it |-> <<>>,
                   respond |-> <<new_err(r.id, InvalidParams, res.error)>>]
    ELSE [slot |-> req, it |-> <<>>, respond |-> <<>>]

\* Mutant of parse: a payload that does not decode is treated like a method
\* that does not match (the request stays in the slot, nothing is sent).
parse_falls_through(R) ==
    IF req # <<>> /\ req[1].method = R
    THEN LET r == req[1]
             res == from_json(R, r.params)
         IN  IF res.ok
             THEN [slot |-> <<>>, it |-> <<[req |-> r, params |-> res.value]>>,
                   respond |-> <<>>]
             ELSE [slot |-> req, it |-> <<>>, respond |-> <<>>]
    ELSE [slot |-> req, it |-> <<>>, respond |-> <<>>]

\* RequestDispatcher::parse::<R>. slot is the new value of self.req, it the
\* returned Option<(req, params)>, respond the responses it sends.
parse(R) ==
    IF req # <<>> /\ req[1].method = R
    THEN LET r == req[1]
             res == from_json(R, r.params)
         IN  IF res.ok
             THEN [slot |-> <<>>, it |-> <<[req |-> r, params |-> res.value]>>,
                   respond |-> <<>>]
             ELSE [slot |-> <<>>, it |-> <<>>,
                   respond |-> <<new_err(r.id, InvalidParams, res.error)>>]
    ELSE [slot |-> req, it |-> <<>>, respond |-> <<>>]

\* Mutant of retry_closure_task: the retried request loses its payload.
retry_closure_task_lossy(c, result) ==
    LET rr == result_to_response(c.req[1].id, result)
    IN  IF rr.ok THEN TaskResponse(rr.resp[1])
        ELSE TaskRetry([c.req[1] EXCEPT !.params = "null"])

\* Mutant of retry_closure_task: every handler failure is retried, not only
\* a cancellation.
retry_closure_task_retries_failures(c, result) ==
    LET rr == result_to_response(c.req[1].id, result)
    IN  IF rr.ok /\ ~IsErr(rr.resp[1]) THEN TaskResponse(rr.resp[1])
        ELSE TaskRetry(c.req[1])

\* Mutant of retry_closure_task: the request put into Task::Retry is rebuilt
\* with another method name.
retry_closure_task_other_method(c, result) ==
    LET rr == result_to_response(c.req[1].id, result)
    IN  IF rr.ok THEN TaskResponse(rr.resp[1])
        ELSE TaskRetry([c.req[1] EXCEPT !.method = IF @ = "X" THEN "Y" ELSE "X"])

\* The closure on_with_thread_intent submits (lines 217-236), run with the
\* handler's result.
retry_closure_task(c, result) ==
    LET rr == result_to_response(c.req[1].id, result)
    IN  IF rr.ok THEN TaskResponse(rr.resp[1]) ELSE TaskRetry(c.req[1])

\* Mutant of no_retry_closure_task: cancellation is retried, as in on.
no_retry_closure_task_retries(c, result) ==
    LET rr == result_to_response(c.req[1].id, result)
    IN  IF rr.ok THEN TaskResponse(rr.resp[1]) ELSE TaskRetry(c.req[1])

\* Mutant of no_retry_closure_task: every error response is replaced by the
\* "content modified" response, not only a cancellation.
no_retry_closure_task_masks_errors(c, result) ==
    LET rr == result_to_response(c.req[1].id, result)
    IN  IF rr.ok /\ ~IsErr(rr.resp[1]) THEN TaskResponse(rr.resp[1])
        ELSE TaskResponse(new_err(c.req[1].id, ContentModified, "content modified"))

\* The closure on_no_retry submits (lines 125-152), run with the handler's result.
no_retry_closure_task(c, result) ==
    LET rr == result_to_response(c.req[1].id, result)
    IN  IF rr.ok THEN TaskResponse(rr.resp[1])
        ELSE TaskResponse(new_err(c.req[1].id, ContentModified, "content modified"))

\* Mutant of closure_world: the snapshot is taken inside the closure, when
\* the pool thread runs it.
closure_world_late(c) == snapshot

\* The world a pooled handler is called with: the snapshot taken when the
\* closure was built on the main thread.
closure_world(c) == c.world

----------------------------------------------------------------------------
(* Ghost bookkeeping *)

FateInit == [by |-> "none", outcome |-> "none", calls |-> 0, at |-> -1, seen |-> -1]

\* The latest dispatch of request id was consumed by strategy by at state version at.
Consumed(id, by, at) ==
    [fate EXCEPT ![id] = [by |-> by, outcome |-> "none", calls |-> 0, at |-> at,
                          seen |-> -1]]

\* The handler of the latest dispatch of id ran, read world and ended as kind.
Ran(f, id, world, kind) ==
    [f EXCEPT ![id].outcome = kind, ![id].calls = @ + 1, ![id].seen = world]

Remove(q, i) == SubSeq(q, 1, i - 1) \o SubSeq(q, i + 1, Len(q))

\* Retry tasks produced so far.
RetryCount ==
    Cardinality({i \in 1..Len(tasks) : tasks[i].task.kind = "Retry"})

----------------------------------------------------------------------------
(* RequestDispatcher *)

\* What every strategy does when parse returns None (lines 51-52): the slot
\* and the responses are as parse left them, and the strategy returns self.
parse_none(p) ==
    /\ req' = p.slot
    /\ sent' = IF p.respond = <<>> THEN sent
               ELSE respond(sent, p.respond[1], "parse", "none")
    /\ fate' = IF p.respond = <<>> THEN fate
               ELSE Consumed(req[1].id, "parse", state)
    /\ UNCHANGED <<pc, state, pool, spawned>>

\* Mutant of on_sync_mut: the handler's result is never passed to respond.
on_sync_mut_no_respond(R, f, mutate) ==
    /\ pc = "req" /\ ~finished /\ steps < MaxChain
    /\ steps' = steps + 1
    /\ tried' = Append(tried, R)
    /\ LET p == parse(R)
       IN  IF p.it = <<>> THEN parse_none(p)
           ELSE LET id == p.it[1].req.id
                IN  /\ req' = p.slot
                    /\ state' = IF mutate THEN state + 1 ELSE state
                    /\ pc' = IF f = Panic THEN "panicked" ELSE pc
                    /\ fate' = Ran(Consumed(id, "on_sync_mut", state), id, state, f.kind)
                    /\ UNCHANGED <<sent, pool, spawned>>
    /\ UNCHANGED <<not, finished, tasks, cursor, nextId, nots, errlog, loopErr, orig, sessions, dcruns, ncalls>>

\* RequestDispatcher::on_sync_mut::<R>(f). f is what the handler does when it
\* is called: its result (or a panic), and whether it changes the state.
on_sync_mut(R, f, mutate) ==
    /\ pc = "req" /\ ~finished /\ steps < MaxChain
    /\ steps' = steps + 1
    /\ tried' = Append(tried, R)
    /\ LET p == parse(R)
       IN  IF p.it = <<>> THEN parse_none(p)
           ELSE LET id == p.it[1].req.id
                    rr == result_to_response(id, f)
                IN  /\ req' = p.slot
                    /\ state' = IF mutate THEN state + 1 ELSE state
                    /\ pc' = IF f = Panic THEN "panicked" ELSE pc
                    /\ sent' = IF f # Panic /\ rr.ok
                               THEN respond(sent, rr.resp[1], "on_sync_mut", f.kind)
                               ELSE sent
                    /\ fate' = Ran(Consumed(id, "on_sync_mut", state), id, state, f.kind)
                    /\ UNCHANGED <<pool, spawned>>
    /\ UNCHANGED <<not, finished, tasks, cursor, nextId, nots, errlog, loopErr, orig, sessions, dcruns, ncalls>>

\* Mutant of on_sync: a cancellation is answered with "content modified", as
\* in the closure of on_no_retry.
on_sync_cancel_modified(R, f) ==
    /\ pc = "req" /\ ~finished /\ steps < MaxChain
    /\ steps' = steps + 1
    /\ tried' = Append(tried, R)
    /\ LET p == parse(R)
       IN  IF p.it = <<>> THEN parse_none(p)
           ELSE LET id == p.it[1].req.id
                    global_state_snapshot == snapshot
                    rr == result_to_response(id, f)
                IN  /\ req' = p.slot
                    /\ pc' = IF f = Panic THEN "panicked" ELSE pc
                    /\ sent' = IF f = Panic THEN sent
                               ELSE IF rr.ok
                               THEN respond(sent, rr.resp[1], "on_sync", f.kind)
                               ELSE respond(sent,
                                            new_err(id, ContentModified,
                                                    "content modified"),
                                            "on_sync", f.kind)
                    /\ fate' = Ran(Consumed(id, "on_sync", state), id,
                                   global_state_snapshot, f.kind)
                    /\ UNCHANGED <<state, pool, spawned>>
    /\ UNCHANGED <<not, finished, tasks, cursor, nextId, nots, errlog, loopErr, orig,
                   sessions, dcruns, ncalls>>

\* Mutant of on_sync: the response carries no result (the handler's value is
\* not serialised into it).
on_sync_null_result(R, f) ==
    /\ pc = "req" /\ ~finished /\ steps < MaxChain
    /\ steps' = steps + 1
    /\ tried' = Append(tried, R)
    /\ LET p == parse(R)
       IN  IF p.it = <<>> THEN parse_none(p)
           ELSE LET id == p.it[1].req.id
                    global_state_snapshot == snapshot
                    rr == result_to_response(id, f)
                IN  /\ req' = p.slot
                    /\ pc' = IF f = Panic THEN "panicked" ELSE pc
                    /\ sent' = IF f # Panic /\ rr.ok
                               THEN respond(sent, [rr.resp[1] EXCEPT !.result = <<>>],
                                            "on_sync", f.kind)
                               ELSE sent
                    /\ fate' = Ran(Consumed(id, "on_sync", state), id,
                                   global_state_snapshot, f.kind)
                    /\ UNCHANGED <<state, pool, spawned>>
    /\ UNCHANGED <<not, finished, tasks, cursor, nextId, nots, errlog, loopErr, orig,
                   sessions, dcruns, ncalls>>

\* RequestDispatcher::on_sync::<R>(f)
on_sync(R, f) ==
    /\ pc = "req" /\ ~finished /\ steps < MaxChain
    /\ steps' = steps + 1
    /\ tried' = Append(tried, R)
    /\ LET p == parse(R)
       IN  IF p.it = <<>> THEN parse_none(p)
           ELSE LET id == p.it[1].req.id
                    global_state_snapshot == snapshot
                    rr == result_to_response(id, f)
                IN  /\ req' = p.slot
                    /\ pc' = IF f = Panic THEN "panicked" ELSE pc
                    /\ sent' = IF f # Panic /\ rr.ok
                               THEN respond(sent, rr.resp[1], "on_sync", f.kind)
                               ELSE sent
                    /\ fate' = Ran(Consumed(id, "on_sync", state), id,
                                   global_state_snapshot, f.kind)
                    /\ UNCHANGED <<state, pool, spawned>>
    /\ UNCHANGED <<not, finished, tasks, cursor, nextId, nots, errlog, loopErr, orig, sessions, dcruns, ncalls>>

\* The closure a pooled strategy builds on the main thread: the request, the
\* decoded parameters and the snapshot taken now are moved into it.
closure(body, by, it) ==
    [body |-> body, by |-> by, req |-> <<it.req>>, params |-> it.params,
     world |-> snapshot, sess |-> sessions]

\* RequestDispatcher::on_no_retry::<R>(f)
on_no_retry(R) ==
    /\ pc = "req" /\ ~finished /\ steps < MaxChain
    /\ steps' = steps + 1
    /\ tried' = Append(tried, R)
    /\ LET p == parse(R)
       IN  IF p.it = <<>> THEN parse_none(p)
           ELSE LET id == p.it[1].req.id
                IN  /\ req' = p.slot
                    /\ pool' = spawn(pool, closure("no_retry", "on_no_retry", p.it[1]))
                    /\ fate' = Consumed(id, "on_no_retry", state)
                    /\ spawned' = [spawned EXCEPT ![id] = @ + 1]
                    /\ UNCHANGED <<pc, state, sent>>
    /\ UNCHANGED <<not, finished, tasks, cursor, nextId, nots, errlog, loopErr, orig, sessions, dcruns, ncalls>>

\* Mutant of on_with_thread_intent: the strategy waits for the pool thread
\* to run the closure (here with a handler that returns 42) before it returns.
on_with_thread_intent_joins(intent, R) ==
    /\ pc = "req" /\ ~finished /\ steps < MaxChain
    /\ steps' = steps + 1
    /\ tried' = Append(tried, R)
    /\ LET p == parse(R)
           by == IF intent = "Worker" THEN "on" ELSE "on_latency_sensitive"
       IN  IF p.it = <<>> THEN parse_none(p) /\ UNCHANGED tasks
           ELSE LET id == p.it[1].req.id
                    c == closure("retry", by, p.it[1])
                IN  /\ req' = p.slot
                    /\ fate' = Ran(Consumed(id, by, state), id, c.world, "Ok")
                    /\ spawned' = [spawned EXCEPT ![id] = @ + 1]
                    /\ tasks' = Append(tasks,
                                       [task |-> retry_closure_task(c, OkResult(42)),
                                        by |-> by, outcome |-> "Ok", rid |-> id,
                                        at |-> state, seen |-> c.world, now |-> state])
                    /\ UNCHANGED <<pc, state, sent, pool>>
    /\ UNCHANGED <<not, finished, cursor, nextId, nots, errlog, loopErr, orig,
                   sessions, dcruns, ncalls>>

\* RequestDispatcher::on_with_thread_intent::<R>(intent, f)
on_with_thread_intent(intent, R) ==
    /\ pc = "req" /\ ~finished /\ steps < MaxChain
    /\ steps' = steps + 1
    /\ tried' = Append(tried, R)
    /\ LET p == parse(R)
           by == IF intent = "Worker" THEN "on" ELSE "on_latency_sensitive"
       IN  IF p.it = <<>> THEN parse_none(p)
           ELSE LET id == p.it[1].req.id
                IN  /\ req' = p.slot
                    /\ pool' = spawn(pool, closure("retry", by, p.it[1]))
                    /\ fate' = Consumed(id, by, state)
                    /\ spawned' = [spawned EXCEPT ![id] = @ + 1]
                    /\ UNCHANGED <<pc, state, sent>>
    /\ UNCHANGED <<not, finished, tasks, cursor, nextId, nots, errlog, loopErr, orig, sessions, dcruns, ncalls>>

\* RequestDispatcher::on::<R>(f)
on(R) == on_with_thread_intent("Worker", R)

\* RequestDispatcher::on_latency_sensitive::<R>(f)
on_latency_sensitive(R) == on_with_thread_intent("LatencySensitive", R)

\* Mutant of finish: the error code of parse is used.
finish_invalid_params ==
    /\ pc = "req"
    /\ finished' = TRUE
    /\ IF req # <<>>
       THEN /\ req' = <<>>
            /\ errlog' = Append(errlog, [msg |-> "unknown request", what |-> req[1]])
            /\ sent' = respond(sent,
                               new_err(req[1].id, InvalidParams, "unknown request"),
                               "finish", "none")
            /\ fate' = Consumed(req[1].id, "finish", state)
       ELSE UNCHANGED <<req, errlog, sent, fate>>
    /\ UNCHANGED <<pc, not, steps, state, pool, tasks, cursor, nextId, nots,
                   loopErr, spawned, tried, orig, sessions, dcruns, ncalls>>

\* RequestDispatcher::finish
finish ==
    /\ pc = "req"
    /\ finished' = TRUE
    /\ IF req # <<>>
       THEN /\ req' = <<>>
            /\ errlog' = Append(errlog, [msg |-> "unknown request", what |-> req[1]])
            /\ sent' = respond(sent,
                               new_err(req[1].id, MethodNotFound, "unknown request"),
                               "finish", "none")
            /\ fate' = Consumed(req[1].id, "finish", state)
       ELSE UNCHANGED <<req, errlog, sent, fate>>
    /\ UNCHANGED <<pc, not, steps, state, pool, tasks, cursor, nextId, nots,
                   loopErr, spawned, tried, orig, sessions, dcruns, ncalls>>

----------------------------------------------------------------------------
(* Task pool threads *)

\* A Task as the pool delivers it, with its ghost tags.
Produced(task, c, kind, rid) ==
    [task |-> task, by |-> c.by, outcome |-> kind, rid |-> rid,
     at |-> IF rid \in ReqIds THEN fate[rid].at ELSE -1,
     seen |-> closure_world(c), now |-> state]

\* Mutant of run_request_closure: a cancelled result is dropped inside the
\* closure (the `if let Ok(response)` of the main-thread strategies).
run_request_closure_drops(c, f) ==
    IF f = Panic \/ f = CancelledResult THEN <<>>
    ELSE IF c.body = "retry" THEN <<retry_closure_task(c, f)>>
    ELSE <<no_retry_closure_task(c, f)>>

\* What running a request closure with handler behaviour f delivers to the
\* main loop: the Task the closure returns, or nothing when the handler panics
\* (no catch_unwind: the panic unwinds the pool thread).
run_request_closure(c, f) ==
    IF f = Panic THEN <<>>
    ELSE IF c.body = "retry" THEN <<retry_closure_task(c, f)>>
    ELSE <<no_retry_closure_task(c, f)>>

\* A pool thread runs the i-th pending request closure; f is what the handler
\* does.
RunClosure(i, f) ==
    /\ i \in 1..Len(pool)
    /\ pool[i].body \in {"retry", "no_retry"}
    /\ LET c == pool[i]
           id == c.req[1].id
           world == closure_world(c)
           out == run_request_closure(c, f)
       IN  /\ (f = CancelledResult /\ c.body = "retry") => RetryCount < MaxRetry
           /\ pool' = Remove(pool, i)
           /\ fate' = Ran(fate, id, world, f.kind)
           /\ tasks' = IF out = <<>> THEN tasks
                       ELSE Append(tasks, Produced(out[1], c, f.kind, id))
    /\ UNCHANGED <<pc, req, not, steps, finished, state, sent, cursor, nextId, nots,
                   errlog, loopErr, spawned, tried, orig, sessions, dcruns, ncalls>>

\* What the steps of the on_did_change closure can do: each of the three
\* unwrap() calls panics when its step fails.
DidChangeRuns == {"ok", "no_session", "write_failed", "parse_failed"}

\* The closure on_did_change submits (lines 402-417).
did_change_closure_task(c) ==
    TaskResponse(new_err(1, ContentModified, "content modified"))

\* session.write_changes_to_file(&uri, params.content_changes) (line 405) has
\* been reached and has written when the run is "ok" or fails only at
\* parse_project. The session is reached through the snapshot (state.sessions),
\* so the write is to data that the live state and all snapshots share.
did_change_writes(d) == d \in {"ok", "parse_failed"}

\* A pool thread runs the i-th pending closure, an on_did_change closure. A
\* step that fails panics at its unwrap(): the closure returns no Task.
RunDidChange(i, d) ==
    /\ i \in 1..Len(pool)
    /\ pool[i].body = "did_change"
    /\ pool' = Remove(pool, i)
    /\ sessions' = IF did_change_writes(d) THEN sessions + 1 ELSE sessions
    /\ dcruns' = Append(dcruns, d)
    /\ tasks' = IF d # "ok" THEN tasks
                ELSE Append(tasks, Produced(did_change_closure_task(pool[i]),
                                            pool[i], d, 0))
    /\ UNCHANGED <<pc, req, not, steps, finished, state, sent, cursor, nextId, nots,
                   errlog, loopErr, fate, spawned, tried, orig, ncalls>>

----------------------------------------------------------------------------
(* NotificationDispatcher *)

\* Method names of notifications, as character sequences.
NotMethods == {<<"n">>, <<"$", "/", "c">>}
NotPayloads == {"pN", "bad"}

\* str::starts_with
starts_with(s, prefix) ==
    Len(s) >= Len(prefix) /\ SubSeq(s, 1, Len(prefix)) = prefix

\* Mutant of extract: a payload that does not decode is reported like a
\* method that does not match, and the notification is handed back.
extract_lenient(n, N) ==
    IF n.method # N THEN [kind |-> "MethodMismatch", not |-> <<n>>, params |-> ""]
    ELSE IF n.params = "pN" THEN [kind |-> "Ok", not |-> <<>>, params |-> n.params]
    ELSE [kind |-> "MethodMismatch", not |-> <<n>>, params |-> ""]

\* lsp_server::Notification::extract::<N::Params>(N::METHOD)
extract(n, N) ==
    IF n.method # N THEN [kind |-> "MethodMismatch", not |-> <<n>>, params |-> ""]
    ELSE IF n.params = "pN" THEN [kind |-> "Ok", not |-> <<>>, params |-> n.params]
    ELSE [kind |-> "JsonError", not |-> <<>>, params |-> ""]

\* Mutant of not_on_sync_mut: the handler's result is discarded (no `?`), so
\* a failure is swallowed and the chain goes on.
not_on_sync_mut_swallows(N, f, mutate) ==
    /\ pc = "not" /\ ~finished /\ steps < MaxChain
    /\ steps' = steps + 1
    /\ IF not = <<>>
       THEN UNCHANGED <<pc, not, state>>
       ELSE LET ex == extract(not[1], N)
            IN  CASE ex.kind = "MethodMismatch" ->
                        /\ not' = ex.not
                        /\ UNCHANGED <<pc, state>>
                  [] ex.kind = "JsonError" ->
                        /\ not' = <<>>
                        /\ pc' = "panicked"
                        /\ UNCHANGED state
                  [] OTHER ->
                        /\ not' = <<>>
                        /\ state' = IF mutate THEN state + 1 ELSE state
                        /\ pc' = IF f = "Panic" THEN "panicked" ELSE pc
    /\ UNCHANGED <<req, finished, loopErr, sent, pool, tasks, cursor, nextId, nots,
                   errlog, fate, spawned, tried, orig, sessions, dcruns>>
    /\ ncalls' = IF not # <<>> /\ extract(not[1], N).kind = "Ok"
                 THEN ncalls + 1 ELSE ncalls

\* NotificationDispatcher::on_sync_mut::<N>(f). f is what the handler does:
\* "Ok", "Err" or "Panic", and whether it changes the state.
not_on_sync_mut(N, f, mutate) ==
    /\ pc = "not" /\ ~finished /\ steps < MaxChain
    /\ IF not = <<>>
       THEN /\ steps' = steps + 1
            /\ UNCHANGED <<pc, not, finished, state, loopErr>>
       ELSE LET ex == extract(not[1], N)
            IN  CASE ex.kind = "MethodMismatch" ->
                        /\ not' = ex.not
                        /\ steps' = steps + 1
                        /\ UNCHANGED <<pc, finished, state, loopErr>>
                  [] ex.kind = "JsonError" ->
                        /\ not' = <<>>
                        /\ pc' = "panicked"
                        /\ steps' = steps + 1
                        /\ UNCHANGED <<finished, state, loopErr>>
                  [] OTHER ->
                        /\ not' = <<>>
                        /\ state' = IF mutate THEN state + 1 ELSE state
                        /\ pc' = CASE f = "Panic" -> "panicked"
                                   [] f = "Err" -> "idle"
                                   [] OTHER -> pc
                        /\ loopErr' = IF f = "Err" THEN loopErr + 1 ELSE loopErr
                        /\ steps' = IF f = "Err" THEN 0 ELSE steps + 1
                        /\ finished' = IF f = "Err" THEN FALSE ELSE finished
    /\ UNCHANGED <<req, sent, pool, tasks, cursor, nextId, nots, errlog, fate,
                   spawned, tried, orig, sessions, dcruns>>
    /\ ncalls' = IF not # <<>> /\ extract(not[1], N).kind = "Ok"
                 THEN ncalls + 1 ELSE ncalls

\* Mutant of not_on_did_change: the notification is borrowed from the slot,
\* not taken, so it is still there after a match.
not_on_did_change_borrows(N) ==
    /\ pc = "not" /\ ~finished /\ steps < MaxChain
    /\ steps' = steps + 1
    /\ IF not = <<>>
       THEN UNCHANGED <<pc, not, pool>>
       ELSE LET ex == extract(not[1], N)
            IN  CASE ex.kind = "MethodMismatch" ->
                        /\ not' = ex.not
                        /\ UNCHANGED <<pc, pool>>
                  [] ex.kind = "JsonError" ->
                        /\ pc' = "panicked"
                        /\ UNCHANGED <<not, pool>>
                  [] OTHER ->
                        /\ pool' = spawn(pool, [body |-> "did_change",
                                                by |-> "on_did_change",
                                                req |-> <<>>,
                                                params |-> ex.params,
                                                world |-> snapshot,
                                                sess |-> sessions])
                        /\ UNCHANGED <<pc, not>>
    /\ UNCHANGED <<req, finished, state, sent, tasks, cursor, nextId, nots, errlog,
                   loopErr, fate, spawned, tried, orig, sessions, dcruns>>
    /\ ncalls' = IF not # <<>> /\ extract(not[1], N).kind = "Ok"
                 THEN ncalls + 1 ELSE ncalls

\* NotificationDispatcher::on_did_change::<N>(f)
not_on_did_change(N) ==
    /\ pc = "not" /\ ~finished /\ steps < MaxChain
    /\ steps' = steps + 1
    /\ IF not = <<>>
       THEN UNCHANGED <<pc, not, pool>>
       ELSE LET ex == extract(not[1], N)
            IN  CASE ex.kind = "MethodMismatch" ->
                        /\ not' = ex.not
                        /\ UNCHANGED <<pc, pool>>
                  [] ex.kind = "JsonError" ->
                        /\ not' = <<>>
                        /\ pc' = "panicked"
                        /\ UNCHANGED pool
                  [] OTHER ->
                        /\ not' = <<>>
                        /\ pool' = spawn(pool, [body |-> "did_change",
                                                by |-> "on_did_change",
                                                req |-> <<>>,
                                                params |-> ex.params,
                                                world |-> snapshot,
                                                sess |-> sessions])
                        /\ UNCHANGED pc
    /\ UNCHANGED <<req, finished, state, sent, tasks, cursor, nextId, nots, errlog,
                   loopErr, fate, spawned, tried, orig, sessions, dcruns>>
    /\ ncalls' = IF not # <<>> /\ extract(not[1], N).kind = "Ok"
                 THEN ncalls + 1 ELSE ncalls

\* Mutant of not_finish: the test for the "$/" prefix is missing.
not_finish_logs_all ==
    /\ pc = "not" /\ ~finished
    /\ finished' = TRUE
    /\ errlog' = IF not # <<>>
                 THEN Append(errlog, [msg |-> "unhandled notification",
                                      what |-> not[1]])
                 ELSE errlog
    /\ UNCHANGED <<pc, req, not, steps, state, sent, pool, tasks, cursor, nextId,
                   nots, loopErr, fate, spawned, tried, orig, sessions, dcruns, ncalls>>

\* NotificationDispatcher::finish
not_finish ==
    /\ pc = "not" /\ ~finished
    /\ finished' = TRUE
    /\ errlog' = IF not # <<>> /\ ~starts_with(not[1].method, <<"$", "/">>)
                 THEN Append(errlog, [msg |-> "unhandled notification",
                                      what |-> not[1]])
                 ELSE errlog
    /\ UNCHANGED <<pc, req, not, steps, state, sent, pool, tasks, cursor, nextId,
                   nots, loopErr, fate, spawned, tried, orig, sessions, dcruns, ncalls>>

----------------------------------------------------------------------------
(* Main event loop: the caller of the dispatchers *)

\* A request arrives with a fresh identifier; a RequestDispatcher is built for it.
NewRequest(method, params) ==
    /\ pc = "idle" /\ (nextId - 1) + nots < MaxMsgs
    /\ req' = <<Request(nextId, method, params)>>
    /\ orig' = [orig EXCEPT ![nextId] = <<Request(nextId, method, params)>>]
    /\ nextId' = nextId + 1
    /\ pc' = "req" /\ steps' = 0 /\ finished' = FALSE
    /\ UNCHANGED <<not, state, sent, pool, tasks, cursor, nots, errlog, loopErr,
                   fate, spawned, tried, sessions, dcruns, ncalls>>

\* A notification arrives; a NotificationDispatcher is built for it.
NewNotification(method, params) ==
    /\ pc = "idle" /\ (nextId - 1) + nots < MaxMsgs
    /\ not' = <<[method |-> method, params |-> params]>>
    /\ nots' = nots + 1
    /\ pc' = "not" /\ steps' = 0 /\ finished' = FALSE
    /\ UNCHANGED <<req, state, sent, pool, tasks, cursor, nextId, errlog, loopErr,
                   fate, spawned, tried, orig, sessions, dcruns>>
    /\ ncalls' = 0

\* The loop takes the next Task from its inbox: a Response is delivered to the
\* peer, the request of a Retry is dispatched again.
HandleTask ==
    /\ pc = "idle" /\ cursor < Len(tasks)
    /\ cursor' = cursor + 1
    /\ LET t == tasks[cursor + 1].task
       IN  IF t.kind = "Retry"
           THEN /\ req' = t.req
                /\ fate' = [fate EXCEPT ![t.req[1].id] = FateInit]
                /\ pc' = "req" /\ steps' = 0 /\ finished' = FALSE
           ELSE UNCHANGED <<req, fate, pc, steps, finished>>
    /\ UNCHANGED <<not, state, sent, pool, tasks, nextId, nots, errlog, loopErr,
                   spawned, tried, orig, sessions, dcruns, ncalls>>

\* The chain has ended with finish and the dispatcher is dropped.
EndDispatch ==
    /\ pc \in {"req", "not"} /\ finished
    /\ pc' = "idle" /\ steps' = 0 /\ finished' = FALSE
    /\ req' = <<>> /\ not' = <<>> /\ tried' = <<>>
    /\ UNCHANGED <<state, sent, pool, tasks, cursor, nextId, nots, errlog, loopErr,
                   fate, spawned, orig, sessions, dcruns>>
    /\ ncalls' = 0

----------------------------------------------------------------------------
(* Specification *)

Init ==
    /\ pc = "idle"
    /\ req = <<>> /\ not = <<>>
    /\ steps = 0 /\ finished = FALSE
    /\ state = 0
    /\ sent = <<>> /\ pool = <<>> /\ tasks = <<>> /\ cursor = 0
    /\ nextId = 1 /\ nots = 0
    /\ errlog = <<>> /\ loopErr = 0
    /\ fate = [id \in ReqIds |-> FateInit]
    /\ spawned = [id \in ReqIds |-> 0]
    /\ tried = <<>>
    /\ orig = [id \in ReqIds |-> <<>>]
    /\ sessions = 0
    /\ dcruns = <<>>
    /\ ncalls = 0

Next ==
    \/ \E m \in ReqMethods, p \in Payloads : NewRequest(m, p)
    \/ \E m \in NotMethods, p \in NotPayloads : NewNotification(m, p)
    \/ HandleTask
    \/ EndDispatch
    \/ \E R \in ReqMethods, f \in Behaviours, mutate \in BOOLEAN : on_sync_mut(R, f, mutate)
    \/ \E R \in ReqMethods, f \in Behaviours : on_sync(R, f)
    \/ \E R \in ReqMethods : on(R)
    \/ \E R \in ReqMethods : on_latency_sensitive(R)
    \/ \E R \in ReqMethods : on_no_retry(R)
    \/ finish
    \/ \E N \in NotMethods, f \in {"Ok", "Err", "Panic"}, mutate \in BOOLEAN :
            not_on_sync_mut(N, f, mutate)
    \/ \E N \in NotMethods : not_on_did_change(N)
    \/ not_finish
    \/ \E i \in 1..Len(pool), f \in Behaviours : RunClosure(i, f)
    \/ \E i \in 1..Len(pool), d \in DidChangeRuns : RunDidChange(i, d)

Spec == Init /\ [][Next]_vars

\* Pool threads are scheduled: a submitted closure is eventually run.
FairSpec == Spec /\ WF_vars(\E i \in 1..Len(pool), f \in Behaviours : RunClosure(i, f))

----------------------------------------------------------------------------
(* Helpers of the properties *)

Strategies == {"on_sync_mut", "on_sync", "on", "on_latency_sensitive", "on_no_retry"}
SyncStrategies == {"on_sync_mut", "on_sync"}
RetryStrategies == {"on", "on_latency_sensitive"}
PooledStrategies == RetryStrategies \cup {"on_no_retry"}
ResultKinds == {"Ok", "LspError", "Cancelled", "Other"}

\* Any strategy attempt for method R, as one step of the chain.
Attempt(R) ==
    \/ \E f \in Behaviours, mutate \in BOOLEAN : on_sync_mut(R, f, mutate)
    \/ \E f \in Behaviours : on_sync(R, f)
    \/ on(R)
    \/ on_latency_sensitive(R)
    \/ on_no_retry(R)

\* The step runs no handler, sends no response, spawns nothing and logs nothing.
NoEffect == UNCHANGED <<pc, state, sent, pool, tasks, errlog, fate, spawned>>

\* Responses passed to respond that carry identifier id.
SentFor(id) == {i \in 1..Len(sent) : sent[i].resp.id = id}

\* Task::Response values produced that carry identifier id.
TaskResponsesFor(id) ==
    {i \in 1..Len(tasks) :
        tasks[i].task.kind = "Response" /\ tasks[i].task.resp[1].id = id}

\* Those of them that closures of the request dispatcher produced.
ReqTaskResponsesFor(id) == {i \in TaskResponsesFor(id) : tasks[i].by \in PooledStrategies}

\* Tasks of either kind that closures submitted for request id produced.
ReqTasksFor(id) == {i \in 1..Len(tasks) : tasks[i].rid = id}

\* Closures submitted for request id that no pool thread has run yet.
PendingFor(id) == {i \in 1..Len(pool) : pool[i].req # <<>> /\ pool[i].req[1].id = id}

AllResponses(id) == Cardinality(SentFor(id)) + Cardinality(TaskResponsesFor(id))
NumResponses(id) == Cardinality(SentFor(id)) + Cardinality(ReqTaskResponsesFor(id))

\* The latest dispatch of id was consumed by a path that produces no Retry
\* task, and that path has run to its end with a handler that returned.
Resolved(id) ==
    \/ fate[id].by \in {"parse", "finish"}
    \/ fate[id].by \in SyncStrategies \cup {"on_no_retry"}
            /\ fate[id].outcome \in ResultKinds
    \/ fate[id].by \in RetryStrategies
            /\ fate[id].outcome \in ResultKinds \ {"Cancelled"}

DroppedCancel(id) ==
    fate[id].by \in SyncStrategies /\ fate[id].outcome = "Cancelled"

----------------------------------------------------------------------------
(* Properties *)

\* C1: in every chain of strategy attempts, an attempt whose method equals the
\* method of the request still in the slot empties the slot; an attempt for
\* another method leaves the request in the slot and has no effect; an attempt
\* or finish that finds the slot empty runs no handler, sends no response and
\* spawns no task; finish leaves the slot empty. So the request is consumed
\* by exactly one step: the first matching attempt, or finish.
C1_ExactlyOneConsumer ==
    /\ [](pc = "req" /\ req # <<>> =>
            \A k \in 1..Len(tried) : tried[k] # req[1].method)
    /\ [](pc = "req" /\ finished => req = <<>>)
    /\ [][/\ \A R \in ReqMethods :
                Attempt(R) =>
                    IF req # <<>> /\ req[1].method = R
                    THEN req' = <<>>
                    ELSE req' = req /\ NoEffect
          /\ finish => /\ req' = <<>>
                       /\ req = <<>> => NoEffect]_vars

\* C1 witness: the first attempt (on_sync for "X") consumed request 1, and a
\* second attempt registered for the same method and then finish followed.
C1_Witness ==
    /\ pc = "req" /\ finished /\ nextId = 2 /\ nots = 0
    /\ tried = <<"X", "X">>
    /\ fate[1].by = "on_sync" /\ fate[1].calls = 1
    /\ Len(sent) = 1

\* C2 as stated: every request consumed by a path that produces no Retry
\* task has exactly one response for its identifier, whatever the handler
\* returned.
C2_Original == \A id \in ReqIds : Resolved(id) => AllResponses(id) = 1

\* C2, amended: the request dispatcher never produces two responses for one
\* identifier, and a request consumed by a path that produces no Retry task
\* has exactly one response produced for it by the request dispatcher, except
\* that it has none when an on_sync_mut or on_sync handler returned
\* cancellation.
C2_ExactlyOneResponse ==
    \A id \in ReqIds :
        /\ NumResponses(id) <= 1
        /\ Resolved(id) => NumResponses(id) = IF DroppedCancel(id) THEN 0 ELSE 1

\* C2 witness: request 1 was cancelled on the pooled path, dispatched again
\* and answered, and request 2 was dropped by a cancelled on_sync handler.
C2_Witness ==
    /\ Cardinality(ReqTasksFor(1)) = 2 /\ NumResponses(1) = 1
    /\ DroppedCancel(2) /\ NumResponses(2) = 0

\* C3 as stated: a handler outcome of Cancelled never becomes a response that
\* carries an error.
C3_Original ==
    /\ \A i \in 1..Len(sent) : sent[i].outcome = "Cancelled" => ~IsErr(sent[i].resp)
    /\ \A i \in 1..Len(tasks) :
            tasks[i].outcome = "Cancelled" =>
                ~(tasks[i].task.kind = "Response" /\ IsErr(tasks[i].task.resp[1]))

\* C3, amended: a handler outcome of Cancelled is dropped by on_sync_mut and
\* on_sync (nothing is passed to respond), becomes Task::Retry under on and
\* on_latency_sensitive, and under on_no_retry becomes a Task::Response whose
\* error has the ContentModified code; it never becomes a response with the
\* InternalError code.
C3_CancelledMapping ==
    /\ \A i \in 1..Len(sent) : sent[i].outcome # "Cancelled"
    /\ \A id \in ReqIds : DroppedCancel(id) => NumResponses(id) = 0
    /\ \A i \in 1..Len(tasks) :
            tasks[i].outcome = "Cancelled" =>
                \/ tasks[i].by \in RetryStrategies /\ tasks[i].task.kind = "Retry"
                \/ /\ tasks[i].by = "on_no_retry"
                   /\ tasks[i].task.kind = "Response"
                   /\ IsErrCode(tasks[i].task.resp[1], ContentModified)

\* C3 witness: one cancellation was retried and another, under on_no_retry,
\* became a ContentModified response.
C3_Witness ==
    /\ \E i \in 1..Len(tasks) :
            tasks[i].outcome = "Cancelled" /\ tasks[i].task.kind = "Retry"
    /\ \E i \in 1..Len(tasks) :
            tasks[i].outcome = "Cancelled" /\ tasks[i].by = "on_no_retry"

\* The handler run for request id on a pool thread panicked.
PoolPanicked(id) ==
    IF fate[id].by \in PooledStrategies /\ fate[id].outcome = "Panic" THEN 1 ELSE 0

\* C4: every closure a pooled strategy submitted for a request has either not
\* run yet, or panicked, or produced exactly one Task, which is a Response or
\* a Retry; and with fair pool threads a submitted closure is eventually run,
\* so that a handler that returns ends in exactly one Task.
C4_ExactlyOneTask ==
    /\ [](\A id \in ReqIds :
            /\ spawned[id] = Cardinality(ReqTasksFor(id))
                                + Cardinality(PendingFor(id)) + PoolPanicked(id)
            /\ Cardinality(PendingFor(id)) <= 1)
    /\ [](\A i \in 1..Len(tasks) :
            \/ tasks[i].task.kind = "Response"
                    /\ Len(tasks[i].task.resp) = 1 /\ tasks[i].task.req = <<>>
            \/ tasks[i].task.kind = "Retry"
                    /\ Len(tasks[i].task.req) = 1 /\ tasks[i].task.resp = <<>>)
    /\ \A id \in ReqIds : (PendingFor(id) # {}) ~> (PendingFor(id) = {})

\* C4 witness: both requests went to the pool; one closure produced a Retry
\* and then, resubmitted, a Response, the other a Response.
C4_Witness ==
    /\ spawned[1] = 2 /\ Cardinality(ReqTasksFor(1)) = 2
    /\ spawned[2] = 1 /\ Cardinality(ReqTasksFor(2)) = 1
    /\ pool = <<>>

\* C5: when a handler dispatched through on or on_latency_sensitive returns
\* cancellation, the Task produced is Task::Retry carrying the request exactly
\* as it was received (identifier, method and payload), and that dispatch
\* produces no response for the request.
C5_CancelledIsRetry ==
    /\ \A i \in 1..Len(tasks) :
            tasks[i].by \in RetryStrategies /\ tasks[i].outcome = "Cancelled" =>
                /\ orig[tasks[i].rid] # <<>>
                /\ tasks[i].task = TaskRetry(orig[tasks[i].rid][1])
    /\ \A id \in ReqIds :
            fate[id].by \in RetryStrategies /\ fate[id].outcome = "Cancelled" =>
                /\ NumResponses(id) = 0
                /\ \E i \in ReqTasksFor(id) : tasks[i].task.kind = "Retry"

\* C5 witness: request 2, sent under on_latency_sensitive, was cancelled and
\* its Retry task is in the inbox.
C5_Witness ==
    /\ fate[2].by = "on_latency_sensitive" /\ fate[2].outcome = "Cancelled"
    /\ \E i \in 1..Len(tasks) :
            tasks[i].rid = 2 /\ tasks[i].task.kind = "Retry" /\ i > cursor

\* C6: when a handler dispatched through on_no_retry returns cancellation, the
\* Task produced is Task::Response holding the error response with the
\* request's identifier and the ContentModified code: not InternalError, not
\* Task::Retry.
C6_NoRetryContentModified ==
    /\ \A i \in 1..Len(tasks) :
            tasks[i].by = "on_no_retry" /\ tasks[i].outcome = "Cancelled" =>
                /\ tasks[i].rid \in ReqIds /\ orig[tasks[i].rid] # <<>>
                /\ tasks[i].task =
                        TaskResponse(new_err(tasks[i].rid, ContentModified,
                                             "content modified"))
    /\ \A id \in ReqIds :
            fate[id].by = "on_no_retry" /\ fate[id].outcome = "Cancelled" =>
                /\ \A i \in ReqTasksFor(id) :
                        tasks[i].by = "on_no_retry" =>
                            /\ tasks[i].task.kind = "Response"
                            /\ ~IsErrCode(tasks[i].task.resp[1], InternalError)
                /\ \E i \in TaskResponsesFor(id) :
                        /\ tasks[i].by = "on_no_retry"
                        /\ IsErrCode(tasks[i].task.resp[1], ContentModified)

\* C6 witness: request 2 was cancelled under on_no_retry.
C6_Witness ==
    /\ fate[2].by = "on_no_retry" /\ fate[2].outcome = "Cancelled"
    /\ \E i \in 1..Len(tasks) : tasks[i].rid = 2 /\ tasks[i].by = "on_no_retry"

\* C7: under every strategy, when the method matches and the payload does not
\* decode, the attempt passes to respond exactly the error response with the
\* request's identifier, the InvalidParams code and the decode error's
\* message, empties the slot, runs no handler and spawns nothing; and no
\* other response is ever sent for that request (finish sends no
\* method-not-found response).
C7_DecodeFailure ==
    /\ [][\A R \in ReqMethods :
            Attempt(R) /\ req # <<>> /\ req[1].method = R
                /\ ~from_json(R, req[1].params).ok =>
                    /\ sent' = Append(sent,
                                 [resp |-> new_err(req[1].id, InvalidParams,
                                                   DecodeError(R, req[1].params)),
                                  by |-> "parse", outcome |-> "none"])
                    /\ req' = <<>>
                    /\ fate'[req[1].id].by = "parse" /\ fate'[req[1].id].calls = 0
                    /\ UNCHANGED <<pc, state, pool, tasks, spawned>>]_vars
    /\ [](\A id \in ReqIds :
            fate[id].by = "parse" =>
                /\ Cardinality(SentFor(id)) = 1
                /\ \A i \in SentFor(id) :
                        sent[i].resp = new_err(id, InvalidParams,
                                               DecodeError(orig[id][1].method,
                                                           orig[id][1].params))
                /\ fate[id].calls = 0
                /\ PendingFor(id) = {} /\ ReqTaskResponsesFor(id) = {})

\* C7 witness: request 1 matched an attempt but failed to decode ("X" with the
\* payload of "Y"), and finish has been called after it.
C7_Witness ==
    /\ fate[1].by = "parse" /\ pc = "req" /\ finished /\ nextId = 2
    /\ Len(sent) = 1 /\ IsErrCode(sent[1].resp, InvalidParams)
    /\ orig[1][1].method = "X" /\ orig[1][1].params = "pY"

\* C8: while the request is in the slot no attempted method equals its method
\* and no handler has been invoked for it; finish then passes to respond
\* exactly the error response with the request's identifier and the
\* MethodNotFound code; when the slot is empty finish sends nothing; and only
\* a request that finish consumed ever gets a MethodNotFound response.
C8_MethodNotFound ==
    /\ [](pc = "req" /\ req # <<>> =>
            /\ \A k \in 1..Len(tried) : tried[k] # req[1].method
            /\ fate[req[1].id].calls = 0 /\ fate[req[1].id].by = "none")
    /\ [][finish =>
            IF req # <<>>
            THEN /\ sent' = Append(sent,
                              [resp |-> new_err(req[1].id, MethodNotFound,
                                                "unknown request"),
                               by |-> "finish", outcome |-> "none"])
                 /\ fate'[req[1].id].calls = 0
                 /\ UNCHANGED <<pool, tasks, state, spawned>>
            ELSE UNCHANGED <<sent, pool, tasks, state, errlog, fate, spawned>>]_vars
    /\ [](\A id \in ReqIds :
            /\ (\E i \in SentFor(id) : IsErrCode(sent[i].resp, MethodNotFound))
                    => fate[id].by = "finish"
            /\ fate[id].by = "finish" =>
                    /\ Cardinality(SentFor(id)) = 1
                    /\ \A i \in SentFor(id) :
                            sent[i].resp = new_err(id, MethodNotFound, "unknown request"))

\* C8 witness: request 2 has method "Y", the chain tried "X" twice, and finish
\* answered it.
C8_Witness ==
    /\ pc = "req" /\ finished /\ tried = <<"X", "X">>
    /\ fate[2].by = "finish" /\ orig[2][1].method = "Y"
    /\ \E i \in SentFor(2) : IsErrCode(sent[i].resp, MethodNotFound)

\* C9: once on_sync_mut has consumed a request and returned, the handler has
\* run on the calling thread, the response the handler's result maps to is
\* already passed to respond, and nothing of this request is in the pool or
\* still to come from it: no closure is pending and every Task ever produced
\* for the request is a Retry of an earlier dispatch.
C9_SyncMutNoGap ==
    \A id \in ReqIds :
        fate[id].by = "on_sync_mut" =>
            /\ fate[id].calls = 1 /\ fate[id].outcome # "none"
            /\ PendingFor(id) = {}
            /\ spawned[id] = Cardinality(ReqTasksFor(id))
            /\ \A i \in ReqTasksFor(id) : tasks[i].task.kind = "Retry"
            /\ fate[id].outcome \in {"Ok", "LspError", "Other"} =>
                    /\ Cardinality(SentFor(id)) = 1
                    /\ \A i \in SentFor(id) :
                            /\ sent[i].by = "on_sync_mut"
                            /\ sent[i].outcome = fate[id].outcome
                            /\ IsErr(sent[i].resp) <=> fate[id].outcome # "Ok"

\* C9 witness: on_sync_mut has just answered request 1 and the chain is still
\* running.
C9_Witness ==
    /\ pc = "req" /\ ~finished /\ steps = 1
    /\ fate[1].by = "on_sync_mut" /\ fate[1].outcome = "Ok"
    /\ Len(sent) = 1 /\ sent[1].resp = new_ok(1, 42)
    /\ pool = <<>> /\ tasks = <<>>

PoolStep ==
    \/ \E i \in 1..Len(pool), f \in Behaviours : RunClosure(i, f)
    \/ \E i \in 1..Len(pool), d \in DidChangeRuns : RunDidChange(i, d)

\* C11 as stated: no closure submitted to the pool writes to server state,
\* neither to the state the main thread owns nor to what snapshots show, so
\* after any pool thread's step every snapshot held by a closure still waiting
\* in the pool shows what it showed when it was taken.
C11_Original ==
    [][PoolStep =>
            /\ UNCHANGED <<state, sessions>>
            /\ \A i \in 1..Len(pool') : pool'[i].sess = sessions']_vars

\* The snapshot of a request closure that is still pending has been changed
\* by the on_did_change closure that another pool thread ran.
C11_SnapshotChanged ==
    \E i \in 1..Len(pool) :
        /\ pool[i].req # <<>> /\ pool[i].sess # sessions
        /\ \E k \in 1..Len(dcruns) : did_change_writes(dcruns[k])

\* The typed protocol error of the handlers, and the response it maps to.
Busy == LspErrorResult(-32001, "busy")
BusyResponse(id) == new_err(id, -32001, "busy")

\* The attempt of strategy step on method R finds the request in the slot
\* with that method and a payload that decodes.
Matches(R) == req # <<>> /\ req[1].method = R /\ from_json(R, req[1].params).ok

\* C12: a typed protocol error (code, message) returned by a handler becomes,
\* under every strategy, exactly one error response with the request's
\* identifier, that code and that message: on_sync_mut and on_sync pass it to
\* respond in the same step, the pooled closures return it in Task::Response;
\* it is never given the InternalError code, never dropped and never retried.
C12_TypedError ==
    /\ \A id \in ReqIds, code \in {-32001, -32800}, msg \in {"busy", "stale"} :
            result_to_response(id, LspErrorResult(code, msg))
                = [ok |-> TRUE, resp |-> <<new_err(id, code, msg)>>]
    /\ [][\A R \in ReqMethods :
            /\ (\E mutate \in BOOLEAN : on_sync_mut(R, Busy, mutate)) /\ Matches(R) =>
                    sent' = Append(sent, [resp |-> BusyResponse(req[1].id),
                                          by |-> "on_sync_mut", outcome |-> "LspError"])
            /\ on_sync(R, Busy) /\ Matches(R) =>
                    sent' = Append(sent, [resp |-> BusyResponse(req[1].id),
                                          by |-> "on_sync", outcome |-> "LspError"])]_vars
    /\ [](\A i \in 1..Len(tasks) :
            tasks[i].outcome = "LspError" =>
                /\ tasks[i].rid \in ReqIds
                /\ tasks[i].task = TaskResponse(BusyResponse(tasks[i].rid)))
    /\ [](\A i \in 1..Len(sent) :
            sent[i].outcome = "LspError" =>
                /\ sent[i].resp = BusyResponse(sent[i].resp.id)
                /\ ~IsErrCode(sent[i].resp, InternalError))
    /\ [](\A id \in ReqIds :
            fate[id].by \in Strategies /\ fate[id].outcome = "LspError" =>
                /\ NumResponses(id) = 1
                /\ \A i \in SentFor(id) : sent[i].resp = BusyResponse(id)
                /\ \A i \in ReqTaskResponsesFor(id) :
                        tasks[i].task.resp[1] = BusyResponse(id))

\* C12 witness: request 1 got its typed error from on_sync through respond,
\* request 2 got it from an on_no_retry closure in a Task::Response.
C12_Witness ==
    /\ fate[1].by = "on_sync" /\ fate[1].outcome = "LspError"
    /\ \E i \in SentFor(1) : sent[i].resp = BusyResponse(1)
    /\ fate[2].by = "on_no_retry" /\ fate[2].outcome = "LspError"
    /\ \E i \in ReqTaskResponsesFor(2) : tasks[i].task.resp[1] = BusyResponse(2)

\* C13: when on_sync matches a request and its handler returns the success
\* value 42, the same step passes to respond exactly one response, which has
\* the request's identifier, the result 42 and no error, and it spawns
\* nothing and produces no Task; afterwards that response is the only one the
\* request has.
C13_OnSyncSuccess ==
    /\ \A id \in ReqIds, v \in {0, 7, 42} :
            LET rr == result_to_response(id, OkResult(v))
            IN  /\ rr.ok /\ rr.resp = <<new_ok(id, v)>>
                /\ rr.resp[1].id = id /\ rr.resp[1].result = <<v>>
                /\ rr.resp[1].error = <<>>
    /\ [][\A R \in ReqMethods :
            on_sync(R, OkResult(42)) /\ Matches(R) =>
                /\ sent' = Append(sent, [resp |-> new_ok(req[1].id, 42),
                                         by |-> "on_sync", outcome |-> "Ok"])
                /\ req' = <<>> /\ pc' = "req"
                /\ UNCHANGED <<state, pool, tasks, spawned>>]_vars
    /\ [](\A id \in ReqIds :
            fate[id].by = "on_sync" /\ fate[id].outcome = "Ok" =>
                /\ Cardinality(SentFor(id)) = 1
                /\ \A i \in SentFor(id) :
                        /\ sent[i].resp = [id |-> id, result |-> <<42>>, error |-> <<>>]
                        /\ sent[i].by = "on_sync"
                /\ PendingFor(id) = {}
                /\ ReqTaskResponsesFor(id) = {})

\* C13 witness: on_sync has answered request 2 (method "X") with 42 and the
\* chain has not yet reached finish.
C13_Witness ==
    /\ pc = "req" /\ ~finished
    /\ fate[2].by = "on_sync" /\ fate[2].outcome = "Ok" /\ fate[2].calls = 1
    /\ orig[2] # <<>> /\ orig[2][1].method = "X"
    /\ \E i \in SentFor(2) : sent[i].resp = new_ok(2, 42)

\* The response a generic failure with description "boom" maps to.
BoomResponse(id) == new_err(id, InternalError, "boom")

\* C14: a handler failure that is neither a typed protocol error nor a
\* cancellation becomes, under every strategy, exactly one error response
\* with the request's identifier, the InternalError code and the failure's
\* description as message; the Task a pooled closure produces for it is a
\* Response, never a Retry, and the request is never dispatched again.
C14_GenericFailure ==
    /\ \A id \in ReqIds, msg \in {"boom", "io error"} :
            result_to_response(id, OtherResult(msg))
                = [ok |-> TRUE, resp |-> <<new_err(id, InternalError, msg)>>]
    /\ [][\A R \in ReqMethods :
            /\ (\E mutate \in BOOLEAN : on_sync_mut(R, OtherResult("boom"), mutate))
                    /\ Matches(R) =>
                    sent' = Append(sent, [resp |-> BoomResponse(req[1].id),
                                          by |-> "on_sync_mut", outcome |-> "Other"])
            /\ on_sync(R, OtherResult("boom")) /\ Matches(R) =>
                    sent' = Append(sent, [resp |-> BoomResponse(req[1].id),
                                          by |-> "on_sync", outcome |-> "Other"])]_vars
    /\ [](\A i \in 1..Len(tasks) :
            tasks[i].outcome = "Other" =>
                /\ tasks[i].rid \in ReqIds
                /\ tasks[i].task = TaskResponse(BoomResponse(tasks[i].rid)))
    /\ [](\A id \in ReqIds :
            fate[id].by \in Strategies /\ fate[id].outcome = "Other" =>
                /\ NumResponses(id) = 1
                /\ \A i \in SentFor(id) : sent[i].resp = BoomResponse(id)
                /\ \A i \in ReqTaskResponsesFor(id) :
                        tasks[i].task.resp[1] = BoomResponse(id)
                /\ PendingFor(id) = {}
                /\ \A i \in ReqTasksFor(id) :
                        tasks[i].task.kind = "Retry" => i <= cursor
                /\ req # <<>> => req[1].id # id)
    /\ [][\A id \in ReqIds :
            fate[id].by \in Strategies /\ fate[id].outcome = "Other" =>
                fate'[id] = fate[id] /\ spawned'[id] = spawned[id]]_vars

\* C14 witness: request 1 failed with "boom" in an on closure and request 2
\* in on_sync_mut; both have their InternalError response and the loop has
\* taken every Task.
C14_Witness ==
    /\ fate[1].by = "on" /\ fate[1].outcome = "Other"
    /\ \E i \in ReqTasksFor(1) : tasks[i].task = TaskResponse(BoomResponse(1))
    /\ fate[2].by = "on_sync_mut" /\ fate[2].outcome = "Other"
    /\ \E i \in SentFor(2) : sent[i].resp = BoomResponse(2)
    /\ cursor = Len(tasks) /\ pc = "idle"

\* Retry tasks produced for request id, and those the loop has already taken.
RetriesFor(id) == {i \in ReqTasksFor(id) : tasks[i].task.kind = "Retry"}
Redispatched(id) == \E i \in RetriesFor(id) : i <= cursor

\* C15: a Retry task that the loop takes puts the request back into a
\* dispatcher exactly as it was first received; every Task produced for a
\* request except the last one is a Retry, and a request has one closure
\* pending at most, so each redispatch ends in one further Task at most; a
\* redispatched request whose handler then returns 42 gets Task::Response
\* with the success response for the original identifier; a redispatch whose
\* handler returned has produced exactly one Task since the Retry was taken;
\* and with fair pool threads the closure of a redispatched request is
\* eventually run.
C15_RetryThenSuccess ==
    /\ [][HandleTask /\ tasks[cursor + 1].task.kind = "Retry" =>
            /\ tasks[cursor + 1].rid \in ReqIds
            /\ req' = orig[tasks[cursor + 1].rid]
            /\ pc' = "req" /\ steps' = 0 /\ ~finished'
            /\ UNCHANGED <<sent, pool, tasks>>]_vars
    /\ [](\A id \in ReqIds :
            /\ \A i \in ReqTasksFor(id), j \in ReqTasksFor(id) :
                    i < j => tasks[i].task.kind = "Retry"
            /\ Cardinality(ReqTasksFor(id)) <= Cardinality(RetriesFor(id)) + 1
            /\ PendingFor(id) # {} =>
                    /\ Cardinality(PendingFor(id)) = 1
                    /\ \A i \in RetriesFor(id) : i <= cursor
                    /\ Cardinality(ReqTasksFor(id)) = Cardinality(RetriesFor(id)))
    /\ [](\A id \in ReqIds :
            Redispatched(id) /\ fate[id].by \in RetryStrategies
                /\ fate[id].outcome = "Ok" =>
                    \E j \in ReqTasksFor(id) :
                        /\ \A i \in RetriesFor(id) : i < j
                        /\ tasks[j].task = TaskResponse(new_ok(orig[id][1].id, 42))
                        /\ orig[id][1].id = id)
    /\ [](\A id \in ReqIds :
            Redispatched(id) /\ fate[id].by \in RetryStrategies
                /\ fate[id].outcome \in ResultKinds =>
                    Cardinality({j \in ReqTasksFor(id) :
                        \A i \in RetriesFor(id) : i <= cursor => i < j}) = 1)
    /\ \A id \in ReqIds :
            (Redispatched(id) /\ PendingFor(id) # {})
                ~> (PendingFor(id) = {} /\ fate[id].outcome \in ResultKinds \cup {"Panic"})

\* C15 witness: request 1 was cancelled under on, its Retry was taken by the
\* loop, the request went through on again and its handler returned 42.
C15_Witness ==
    /\ Redispatched(1) /\ fate[1].by = "on" /\ fate[1].outcome = "Ok"
    /\ Cardinality(ReqTasksFor(1)) = 2 /\ spawned[1] = 2
    /\ tasks[1].by = "on" /\ tasks[1].task = TaskRetry(orig[1][1])
    /\ \E j \in ReqTasksFor(1) : tasks[j].task = TaskResponse(new_ok(1, 42))

\* The method name begins with the two characters "$/".
Reserved(m) == Len(m) >= 2 /\ m[1] = "$" /\ m[2] = "/"

UnhandledLog == {i \in 1..Len(errlog) : errlog[i].msg = "unhandled notification"}

\* C16: NotificationDispatcher::finish appends one "unhandled notification"
\* entry for the notification in the slot exactly when the slot is occupied
\* and the method does not begin with "$/"; otherwise it logs nothing; it
\* never passes anything to respond, spawns nothing and leaves the slot as it
\* is. So no entry is ever logged for a "$/" method.
C16_FinishLogs ==
    /\ /\ starts_with(<<"$", "/", "c">>, <<"$", "/">>)
       /\ starts_with(<<"$", "/">>, <<"$", "/">>)
       /\ ~starts_with(<<"$">>, <<"$", "/">>)
       /\ ~starts_with(<<>>, <<"$", "/">>)
       /\ ~starts_with(<<"$", "c", "/">>, <<"$", "/">>)
       /\ ~starts_with(<<"n", "$", "/">>, <<"$", "/">>)
    /\ [][not_finish =>
            /\ errlog' = IF not # <<>> /\ ~Reserved(not[1].method)
                         THEN Append(errlog, [msg |-> "unhandled notification",
                                              what |-> not[1]])
                         ELSE errlog
            /\ UNCHANGED <<not, sent, pool, tasks, state, loopErr, pc>>]_vars
    /\ [](\A i \in UnhandledLog : ~Reserved(errlog[i].what.method))
    /\ [](pc = "not" /\ finished /\ not # <<>> =>
            IF Reserved(not[1].method)
            THEN \A i \in UnhandledLog : errlog[i].what.method # not[1].method
            ELSE errlog # <<>> /\ errlog[Len(errlog)].what = not[1]
                    /\ errlog[Len(errlog)].msg = "unhandled notification")

\* C16 witness: a first notification "n" that no attempt matched was logged,
\* and finish has now run on an unmatched "$/c" without logging it.
C16_Witness ==
    /\ pc = "not" /\ finished /\ nots = 2
    /\ not # <<>> /\ not[1].method = <<"$", "/", "c">>
    /\ Len(errlog) = 1 /\ errlog[1].what.method = <<"n">>
    /\ sent = <<>> /\ tasks = <<>>

\* The attempt on method N finds the notification in the slot with that
\* method and a payload that decodes.
NotMatches(N) ==
    not # <<>> /\ not[1].method = N /\ extract(not[1], N).kind = "Ok"

\* C17: when NotificationDispatcher::on_sync_mut matches a notification and
\* the handler fails, the failure is returned to the caller of the chain,
\* which ends there: no later attempt and no finish runs on that dispatcher,
\* nothing is passed to respond, nothing is spawned or logged, and the slot
\* is empty. When the handler succeeds the dispatcher is returned: the chain
\* goes on with an empty slot and no failure is reported.
C17_NotificationFailure ==
    /\ [][\A N \in NotMethods :
            /\ (\E mutate \in BOOLEAN : not_on_sync_mut(N, "Err", mutate))
                    /\ NotMatches(N) =>
                    /\ loopErr' = loopErr + 1
                    /\ pc' = "idle" /\ not' = <<>>
                    /\ UNCHANGED <<sent, pool, tasks, errlog>>
            /\ (\E mutate \in BOOLEAN : not_on_sync_mut(N, "Ok", mutate))
                    /\ NotMatches(N) =>
                    /\ loopErr' = loopErr
                    /\ pc' = "not" /\ ~finished' /\ steps' = steps + 1
                    /\ not' = <<>>
                    /\ UNCHANGED <<sent, pool, tasks, errlog>>]_vars
    /\ [][loopErr' # loopErr =>
            /\ \E N \in NotMethods, mutate \in BOOLEAN :
                    not_on_sync_mut(N, "Err", mutate) /\ NotMatches(N)
            /\ pc' = "idle" /\ steps' = 0]_vars
    /\ [](loopErr <= nots)

\* C17 witness: the handler of the first notification changed the state and
\* then failed; the failure is with the loop and the dispatcher is gone.
C17_Witness ==
    /\ loopErr = 1 /\ nots = 1 /\ pc = "idle" /\ not = <<>>
    /\ state = 1 /\ sent = <<>> /\ errlog = <<>> /\ pool = <<>> /\ tasks = <<>>

\* C18: a pooled strategy that matches a message submits one closure and
\* returns to the chain in the same step, before any pool thread has run the
\* handler: the closure is pending, no Task has been produced and the
\* dispatcher is ready for the next attempt. The main thread is never in a
\* state of waiting for the pool: whatever is pending in the pool, the chain
\* can go on to finish, the dispatcher can be dropped, and the loop can take
\* the next message.
C18_NoWaiting ==
    /\ [][\A R \in ReqMethods :
            (on(R) \/ on_latency_sensitive(R) \/ on_no_retry(R)) /\ Matches(R) =>
                /\ Len(pool') = Len(pool) + 1
                /\ SubSeq(pool', 1, Len(pool)) = pool
                /\ pool'[Len(pool')].req = req
                /\ fate'[req[1].id].calls = 0
                /\ pc' = "req" /\ steps' = steps + 1 /\ ~finished'
                /\ UNCHANGED <<tasks, sent, cursor>>]_vars
    /\ [][\A N \in NotMethods :
            not_on_did_change(N) /\ NotMatches(N) =>
                /\ Len(pool') = Len(pool) + 1
                /\ SubSeq(pool', 1, Len(pool)) = pool
                /\ pool'[Len(pool')].body = "did_change"
                /\ pc' = "not" /\ steps' = steps + 1 /\ ~finished'
                /\ UNCHANGED <<tasks, sent, cursor, dcruns, sessions>>]_vars
    /\ [](pc \in {"idle", "req", "not", "panicked"})
    /\ [](pc = "req" => ENABLED finish)
    /\ [](pc = "not" /\ ~finished => ENABLED not_finish)
    /\ [](pc \in {"req", "not"} /\ finished => ENABLED EndDispatch)
    /\ [](pc = "idle" /\ (nextId - 1) + nots < MaxMsgs =>
            /\ ENABLED NewRequest("X", "pX")
            /\ ENABLED NewNotification(<<"n">>, "pN"))

\* C18 witness: the chain of request 2 is running on the main thread while
\* the closure submitted for request 1 is still waiting in the pool, its
\* handler not yet called.
C18_Witness ==
    /\ pc = "req" /\ req # <<>> /\ req[1].id = 2 /\ steps = 1
    /\ PendingFor(1) # {} /\ fate[1].by \in PooledStrategies /\ fate[1].calls = 0
    /\ tasks = <<>>

\* on_did_change closures that pool threads have run, and the placeholder
\* Tasks they returned.
DidChangeTasks == {i \in 1..Len(tasks) : tasks[i].by = "on_did_change"}

\* C19 as stated: whatever step fails inside the closure of on_did_change
\* (finding the session, writing the changes, parsing the project), the
\* closure ends normally and its placeholder Task is produced: every closure
\* a pool thread has run has delivered its Task.
C19_Original == Len(dcruns) = Cardinality(DidChangeTasks)

\* The strategies whose handlers only read: the documentation of
\* RequestDispatcher (lines 30-31) says they are wrapped into catch_unwind.
ReadOnlyStrategies == {"on_sync", "on", "on_latency_sensitive", "on_no_retry"}

\* C20 as stated: when the handler of a read-only strategy panics, the panic
\* is caught and the request gets exactly one response, the InternalError
\* response "request handler panicked: ..." for its identifier, and the main
\* thread goes on when the handler ran under on_sync.
C20_Original ==
    \A id \in ReqIds :
        fate[id].by \in ReadOnlyStrategies /\ fate[id].outcome = "Panic" =>
            /\ NumResponses(id) = 1
            /\ \A i \in SentFor(id) :
                    sent[i].resp = thread_result_to_response(id, Panic).resp[1]
            /\ \A i \in ReqTaskResponsesFor(id) :
                    tasks[i].task.resp[1] = thread_result_to_response(id, Panic).resp[1]
            /\ fate[id].by = "on_sync" /\ req = <<>> /\ steps = 1 => pc = "req"

\* The handler result of each kind, and the one response a result that is no
\* cancellation maps to for request id, whatever the strategy.
ResultOfKind(k) ==
    CASE k = "Ok" -> OkResult(42)
      [] k = "LspError" -> Busy
      [] k = "Other" -> OtherResult("boom")
      [] OTHER -> CancelledResult
Expected(id, k) == result_to_response(id, ResultOfKind(k)).resp[1]
NonCancelKinds == {"Ok", "LspError", "Other"}

\* C21: a handler result that is no cancellation gives, for the same request
\* identifier, the same response under all five strategies: the response
\* on_sync_mut and on_sync pass to respond and the response the closures of
\* on, on_latency_sensitive and on_no_retry put into Task::Response are all the
\* one value that depends on the identifier and the result only. The closures
\* on and on_latency_sensitive submit differ in nothing else than the thread
\* intent, and the Task they return is the same for every result, a
\* cancellation included.
C21_SameResponse ==
    /\ [][\A R \in ReqMethods, k \in NonCancelKinds :
            /\ (\E mutate \in BOOLEAN : on_sync_mut(R, ResultOfKind(k), mutate))
                    /\ Matches(R) =>
                    sent' = Append(sent, [resp |-> Expected(req[1].id, k),
                                          by |-> "on_sync_mut", outcome |-> k])
            /\ on_sync(R, ResultOfKind(k)) /\ Matches(R) =>
                    sent' = Append(sent, [resp |-> Expected(req[1].id, k),
                                          by |-> "on_sync", outcome |-> k])]_vars
    /\ [](\A i \in 1..Len(tasks) :
            tasks[i].by \in PooledStrategies /\ tasks[i].outcome \in NonCancelKinds =>
                tasks[i].task = TaskResponse(Expected(tasks[i].rid, tasks[i].outcome)))
    /\ [](\A i \in 1..Len(tasks) :
            tasks[i].by \in RetryStrategies /\ tasks[i].outcome = "Cancelled" =>
                tasks[i].task = TaskRetry(orig[tasks[i].rid][1]))
    /\ [](\A i \in 1..Len(pool) :
            pool[i].by \in RetryStrategies =>
                [pool[i] EXCEPT !.by = "on"]
                    = [body |-> "retry", by |-> "on", req |-> pool[i].req,
                       params |-> from_json(pool[i].req[1].method,
                                            pool[i].req[1].params).value,
                       world |-> pool[i].world, sess |-> pool[i].sess])

\* C21 witness: the same generic failure reached the peer from on_sync_mut
\* through respond (request 1) and from an on_no_retry closure through
\* Task::Response (request 2), as the same response but for the identifier.
C21_Witness ==
    /\ fate[1].by = "on_sync_mut" /\ fate[1].outcome = "Other"
    /\ fate[2].by = "on_no_retry" /\ fate[2].outcome = "Other"
    /\ \E i \in SentFor(1), j \in ReqTaskResponsesFor(2) :
            /\ sent[i].resp = Expected(1, "Other")
            /\ tasks[j].task.resp[1] = [sent[i].resp EXCEPT !.id = 2]

\* C22: when the handler that on_sync_mut or on_sync runs returns the
\* cancellation signal, the step empties the slot, passes nothing to respond,
\* spawns nothing and produces no Task; and from then on nothing is ever
\* produced for that request: no response (finish sends no method-not-found
\* response), no closure, no Task, no further dispatch.
C22_SyncCancelDropped ==
    /\ [][\A R \in ReqMethods :
            (\/ \E mutate \in BOOLEAN : on_sync_mut(R, CancelledResult, mutate)
             \/ on_sync(R, CancelledResult)) /\ Matches(R) =>
                /\ req' = <<>> /\ pc' = "req"
                /\ fate'[req[1].id].by \in SyncStrategies
                /\ fate'[req[1].id].outcome = "Cancelled"
                /\ UNCHANGED <<sent, pool, tasks, spawned, errlog>>]_vars
    /\ [](\A id \in ReqIds :
            DroppedCancel(id) =>
                /\ SentFor(id) = {} /\ ReqTaskResponsesFor(id) = {}
                /\ PendingFor(id) = {}
                /\ \A i \in ReqTasksFor(id) :
                        tasks[i].task.kind = "Retry" /\ i <= cursor
                /\ req # <<>> => req[1].id # id)
    /\ [][\A id \in ReqIds :
            DroppedCancel(id) =>
                /\ fate'[id] = fate[id] /\ spawned'[id] = spawned[id]
                /\ \A i \in 1..Len(sent') : sent'[i].resp.id # id]_vars

\* C22 witness: the handler of on_sync cancelled request 1 and finish has run
\* after it; nothing was sent, logged, spawned or delivered.
C22_Witness ==
    /\ DroppedCancel(1) /\ fate[1].by = "on_sync" /\ fate[1].calls = 1
    /\ pc = "req" /\ finished /\ nextId = 2 /\ nots = 0
    /\ sent = <<>> /\ errlog = <<>> /\ pool = <<>> /\ tasks = <<>>

\* Identifiers of the requests received so far.
Dispatched == 1..(nextId - 1)

\* C23 as stated: counting the responses passed to respond and the responses
\* inside Task::Response, no identifier ever has two responses, and every
\* response carries the identifier of a request that was dispatched.
C23_Original ==
    /\ \A id \in ReqIds : AllResponses(id) <= 1
    /\ \A i \in 1..Len(sent) : sent[i].resp.id \in Dispatched
    /\ \A i \in 1..Len(tasks) :
            tasks[i].task.kind = "Response" => tasks[i].task.resp[1].id \in Dispatched

\* Request 1 has been answered by the request dispatcher, and the Task of an
\* on_did_change closure is a second response with its identifier.
C23_SecondResponse ==
    /\ NumResponses(1) = 1 /\ AllResponses(1) = 2
    /\ \E i \in DidChangeTasks : tasks[i].task.resp[1].id = 1

\* No request has been received, and the Task of an on_did_change closure is
\* a response with identifier 1.
C23_ResponseWithoutRequest ==
    /\ nextId = 1
    /\ \E i \in DidChangeTasks : tasks[i].task.resp[1].id = 1

\* C24 as stated: dispatching a notification produces no response: every
\* response passed to respond comes from the request dispatcher, and no Task
\* that a closure of the notification dispatcher returns is a Task::Response
\* carrying a request identifier.
C24_Original ==
    /\ \A i \in 1..Len(sent) : sent[i].by \in Strategies \cup {"parse", "finish"}
    /\ \A i \in DidChangeTasks :
            ~(tasks[i].task.kind = "Response" /\ tasks[i].task.resp[1].id \in ReqIds)

\* The notification dispatcher itself never calls respond: none of its steps
\* changes the responses sent.
C24_NoRespond ==
    [][(\/ \E N \in NotMethods, f \in {"Ok", "Err", "Panic"}, mutate \in BOOLEAN :
                not_on_sync_mut(N, f, mutate)
        \/ \E N \in NotMethods : not_on_did_change(N)
        \/ not_finish
        \/ \E i \in 1..Len(pool), d \in DidChangeRuns : RunDidChange(i, d))
            => UNCHANGED sent]_vars

\* Any attempt of a NotificationDispatcher chain for method N.
NotAttempt(N) ==
    \/ \E f \in {"Ok", "Err", "Panic"}, mutate \in BOOLEAN : not_on_sync_mut(N, f, mutate)
    \/ not_on_did_change(N)

\* The step calls no handler, submits nothing, reports no failure, logs
\* nothing and returns the dispatcher.
NotNoEffect ==
    /\ pc' = "not" /\ ncalls' = ncalls
    /\ UNCHANGED <<state, sessions, pool, tasks, sent, errlog, loopErr>>

\* C25: in a NotificationDispatcher chain an attempt for another method than
\* the notification's leaves the notification in the slot as it was and has
\* no effect; an attempt that finds the slot empty has no effect; an attempt
\* for the notification's method empties the slot. So at most one handler is
\* called or closure submitted per notification, and after a match finish
\* logs nothing.
C25_OneNotificationHandler ==
    /\ [][\A N \in NotMethods :
            NotAttempt(N) =>
                IF not = <<>> THEN not' = <<>> /\ NotNoEffect
                ELSE IF not[1].method # N THEN not' = not /\ NotNoEffect
                ELSE not' = <<>>]_vars
    /\ [][\A N \in NotMethods :
            NotAttempt(N) /\ NotMatches(N) =>
                /\ ncalls = 0 /\ ncalls' = 1
                /\ not_on_did_change(N) => Len(pool') = Len(pool) + 1]_vars
    /\ [](ncalls <= 1)
    /\ [](pc = "not" /\ ncalls = 1 => not = <<>>)
    /\ [](Len(dcruns) + Cardinality({i \in 1..Len(pool) : pool[i].body = "did_change"})
                <= nots)
    /\ [][not_finish /\ (ncalls = 1 \/ not = <<>>) => errlog' = errlog]_vars

\* C25 witness: of the two attempts made on the second notification one
\* matched and submitted its closure, which is still pending; finish has run
\* and logged nothing.
C25_Witness ==
    /\ pc = "not" /\ finished /\ steps = 2 /\ nots = 2
    /\ not = <<>> /\ ncalls = 1 /\ errlog = <<>>
    /\ Cardinality({i \in 1..Len(pool) : pool[i].body = "did_change"}) = 1

\* C26: when an attempt of the notification chain is for the notification's
\* method and the payload does not decode, the attempt panics on the main
\* thread: no handler is called, nothing is submitted to the pool, no failure
\* is returned to the caller, nothing is sent or logged, and the call never
\* returns: the main thread takes no further step.
C26_NotificationDecodePanic ==
    /\ [][\A N \in NotMethods :
            NotAttempt(N) /\ not # <<>> /\ not[1].method = N /\ not[1].params = "bad" =>
                /\ pc' = "panicked"
                /\ ncalls' = ncalls
                /\ UNCHANGED <<state, sessions, pool, tasks, sent, errlog, loopErr>>]_vars
    /\ [][pc = "panicked" =>
            /\ pc' = "panicked"
            /\ UNCHANGED <<req, not, steps, finished, state, sent, cursor, nextId, nots,
                           errlog, loopErr, ncalls>>]_vars
    /\ [](pc = "not" /\ not # <<>> /\ not[1].params = "bad" => ncalls = 0)

\* C26 witness: the only message so far is a notification whose payload does
\* not decode; an attempt for its method has panicked before any handler was
\* called.
C26_Witness ==
    /\ pc = "panicked" /\ nots = 1 /\ nextId = 1
    /\ ncalls = 0 /\ loopErr = 0 /\ state = 0
    /\ pool = <<>> /\ tasks = <<>> /\ sent = <<>> /\ errlog = <<>> /\ dcruns = <<>>

====
